---- MODULE Spec2Model ----
(***************************************************************************)
(* toyfio: a single-threaded reactor/executor over mio.                    *)
(*                                                                         *)
(* The model follows src/src/lib.rs.  A task is a leaked FutureObj whose   *)
(* heap address is the InnerWaker; every poll of a task happens inside     *)
(* InnerWaker::wake, so the call stack of the single thread is a stack of  *)
(* wake invocations, each with the poll of its task in progress.  A waker  *)
(* token is a leaked Box<LocalWaker> whose address is the mio::Token.      *)
(* mio (Poll::poll, oneshot registrations) and the tasks' own code are the *)
(* environment: a task's poll step may spawn, connect a stream, hit a      *)
(* would-block on a stream it owns, invoke its own waker, and finally      *)
(* return Ready or Pending.                                                *)
(***************************************************************************)
EXTENDS Integers, Sequences, FiniteSets, TLC

\* Bounds of the model.
MaxTasks == 2      \* heap addresses available for leaked FutureObj
MaxRes == 2        \* streams that can be connected
MaxTokens == 2     \* heap addresses available for leaked LocalWaker
MaxDepth == 2      \* nesting of InnerWaker::wake calls
MaxKeys == 2       \* heap addresses available to LeakStorage
MaxItems == 3      \* items ever inserted into LeakStorage
MaxYield == 3      \* items taken from one Incoming

Addr == 1 .. MaxTasks
Res == 1 .. MaxRes
Tok == 1 .. MaxTokens
Interest == {"Readable", "Writable"}
IoErrors == {"EINTR", "EBADF"}
Ops == {"read", "write"}

\* A readiness set the OS can report for a descriptor.
Readiness == {{"Readable"}, {"Writable"}, {"Readable", "Writable"}}

\* poll_write registers with the interest of poll_read.
InterestSwapped(op) == IF op = "write" THEN "Readable" ELSE "Writable"

\* The interest an adapter passes to reregister: poll_read and poll_next
\* mio::Ready::readable(), poll_write mio::Ready::writable().
InterestOf(op) == IF op = "write" THEN "Writable" ELSE "Readable"

NoOwner == 0       \* a stream that is not open

VARIABLES
    counter,   \* Reactor.counter
    fut,       \* heap of leaked FutureObj: Addr -> "unused" | "live" | "freed"
    owner,     \* Res -> the task whose future holds the AsyncTcpStream, or NoOwner
    reg,       \* Res -> the registration mio keeps for the stream
    tok,       \* heap of leaked LocalWaker: Tok -> record
    stack,     \* InnerWaker::wake invocations in progress, innermost last
    batch,     \* tokens of mio::Events not yet visited by iterate's for loop
    mainPc,    \* "main" | "run" | "ok" | "err" | "panic" | "crash"
    result,    \* what run returned: "none" | "Ok" | an io error
    muxErr,    \* what the last failing Poll::poll returned, "none" before
    io,        \* some task has connected, would-blocked or invoked a waker
    ignored    \* streams whose readiness change the last Poll::poll left out, as
               \* it did not match the registered interest (until the batch is visited)

\* LeakStorage<T> (src/src/leak_storage.rs), exercised on its own.
VARIABLES
    ls         \* cells: the leaked boxes as (key, item); gone: those reclaimed;
               \* n: items inserted so far; ret: what the last call returned

\* The adapters (AsyncTcpStream, Incoming) called by one task, with what they
\* return.
VARIABLES
    ad         \* ret: the last adapter call and its result; yielded: the items
               \* Incoming::poll_next has produced so far

reactorVars ==
    <<counter, fut, owner, reg, tok, stack, batch, mainPc, result, muxErr, io, ignored>>

vars == <<reactorVars, ls, ad>>

\* Reactor::register: Token(0), Ready::empty(), PollOpt::oneshot().  A
\* registration also notes the adapter operation that made it.
Placeholder == [token |-> 0, interest |-> "empty", armed |-> FALSE, op |-> "none"]

NoToken == [task |-> 0, res |-> 0, st |-> "unused", wakes |-> 0]

Frame(a, via) == [task |-> a, via |-> via, blocked |-> FALSE]

Top == stack[Len(stack)]

Pop == SubSeq(stack, 1, Len(stack) - 1)

Running == mainPc \in {"main", "run"}

InPoll == Running /\ stack # <<>>

NoCall == [op |-> "none", res |-> 0, poll |-> "none", val |-> "none",
           out |-> "none", rereg |-> "none"]

\* Reactor::new_reactor
Init ==
    /\ counter = 0
    /\ fut = [a \in Addr |-> "unused"]
    /\ owner = [r \in Res |-> NoOwner]
    /\ reg = [r \in Res |-> Placeholder]
    /\ tok = [t \in Tok |-> NoToken]
    /\ stack = <<>>
    /\ batch = <<>>
    /\ mainPc = "main"
    /\ result = "none"
    /\ muxErr = "none"
    /\ io = FALSE
    /\ ignored = {}
    /\ ls = [cells |-> {}, gone |-> {}, n |-> 0, ret |-> 0]
    /\ ad = [ret |-> NoCall, yielded |-> <<>>]

\* Reactor::decrease_counter taking the if branch whatever the counter is.
decrease_counter_returns(c) == FALSE

\* Reactor::increase_counter
increase_counter(c) == c + 1

\* Reactor::decrease_counter: the else branch panics.
decrease_counter_panics(c) == ~(c > 0)

decrease_counter(c) == IF c > 0 THEN c - 1 ELSE c

\* Box::new: the allocator hands out an address that holds no FutureObj yet.
FreeAddrs == {a \in Addr : fut[a] = "unused"}

NewAddr == CHOOSE a \in FreeAddrs : \A b \in FreeAddrs : a <= b

FreeToks == {t \in Tok : tok[t].st = "unused"}

NewTok == CHOOSE t \in FreeToks : \A u \in FreeToks : t <= u

Closed == {r \in Res : owner[r] = NoOwner}

NewRes == CHOOSE r \in Closed : \A q \in Closed : r <= q

\* A registration made without PollOpt::oneshot() stays armed.
NotOneshot(rg, fired) == rg

\* PollOpt::oneshot(): mio disarms a registration once it has delivered an event.
Oneshot(rg, fired) ==
    [r \in Res |-> IF r \in fired THEN [rg[r] EXCEPT !.armed = FALSE] ELSE rg[r]]

\* Dropping a FutureObj drops the streams it holds; mio deregisters them.
DropStreams(own, a) == [r \in Res |-> IF own[r] = a THEN NoOwner ELSE own[r]]

Deregister(rg, a) == [r \in Res |-> IF owner[r] = a THEN Placeholder ELSE rg[r]]

\* Reactor::do_spawn up to and including the call of waker.wake(): the future
\* is leaked and its first poll starts; increase_counter runs when wake returns.
do_spawn ==
    /\ FreeAddrs # {}
    /\ fut' = [fut EXCEPT ![NewAddr] = "live"]
    /\ stack' = Append(stack, Frame(NewAddr, "spawn"))

\* pub fn spawn, called from main before run.
spawn ==
    /\ mainPc = "main"
    /\ stack = <<>>
    /\ do_spawn
    /\ UNCHANGED <<counter, owner, reg, tok, batch, mainPc, result, muxErr, io,
                   ignored, ls, ad>>

\* pub fn run: spawn(f), then start_loop once the spawn has returned.
run ==
    /\ mainPc = "main"
    /\ stack = <<>>
    /\ do_spawn
    /\ mainPc' = "run"
    /\ UNCHANGED <<counter, owner, reg, tok, batch, result, muxErr, io,
                   ignored, ls, ad>>

\* A task calls toyfio::spawn from inside its poll step.
task_spawn ==
    /\ InPoll
    /\ fut[Top.task] = "live"
    /\ Len(stack) < MaxDepth
    /\ do_spawn
    /\ UNCHANGED <<counter, owner, reg, tok, batch, mainPc, result, muxErr, io,
                   ignored, ls, ad>>

\* AsyncTcpStream::connect -> from_tcp_stream -> Reactor::register.
task_connect ==
    /\ InPoll
    /\ fut[Top.task] = "live"
    /\ Closed # {}
    /\ owner' = [owner EXCEPT ![NewRes] = Top.task]
    /\ reg' = [reg EXCEPT ![NewRes] = Placeholder]
    /\ io' = TRUE
    /\ UNCHANGED <<counter, fut, tok, stack, batch, mainPc, result, muxErr,
                   ignored, ls, ad>>

\* Reactor::reregister without the call of Poll::reregister: the waker is
\* leaked and nothing is registered.
reregister_unregistered(r, a, op, ok) ==
    /\ FreeToks # {}
    /\ tok' = [tok EXCEPT ![NewTok] =
                  [task |-> a, res |-> r, st |-> "leaked", wakes |-> 0]]
    /\ reg' = reg

\* Reactor::reregister: the waker clone is leaked first, then mio replaces the
\* registration of the stream by (token, interest, oneshot) unless it fails.
reregister(r, a, op, ok) ==
    /\ FreeToks # {}
    /\ tok' = [tok EXCEPT ![NewTok] =
                  [task |-> a, res |-> r, st |-> "leaked", wakes |-> 0]]
    /\ reg' = IF ok
              THEN [reg EXCEPT ![r] =
                       [token |-> NewTok, interest |-> InterestOf(op),
                        armed |-> TRUE, op |-> op]]
              ELSE reg

\* AsyncTcpStream::poll_read / poll_write reporting would-block: reregister,
\* then Pending (the poll step may now return Pending) or Ready(Err).
task_would_block(r, op, ok) ==
    /\ InPoll
    /\ owner[r] = Top.task
    /\ reregister(r, Top.task, op, ok)
    /\ stack' = [stack EXCEPT ![Len(stack)].blocked = @ \/ ok]
    /\ io' = TRUE
    /\ UNCHANGED <<counter, fut, owner, batch, mainPc, result, muxErr,
                   ignored, ls, ad>>

\* LocalWaker::wake on the waker of the context: InnerWaker::wake polls the
\* future at once, inside the invocation.
task_wake ==
    /\ InPoll
    /\ fut[Top.task] = "live"
    /\ Len(stack) < MaxDepth
    /\ stack' = Append(stack, Frame(Top.task, "waker"))
    /\ io' = TRUE
    /\ UNCHANGED <<counter, fut, owner, reg, tok, batch, mainPc, result, muxErr,
                   ignored, ls, ad>>

\* InnerWaker::wake, Poll::Ready branch: the box is dropped, then
\* decrease_counter; when the caller is do_spawn, increase_counter follows.
\* Dropping a box that was dropped before is undefined: the build may crash
\* or carry on.
poll_ready(carryOn) ==
    /\ InPoll
    /\ IF fut[Top.task] # "live" /\ ~carryOn
       THEN /\ mainPc' = "crash"
            /\ UNCHANGED <<counter, fut, owner, reg, stack>>
       ELSE /\ fut' = [fut EXCEPT ![Top.task] = "freed"]
            /\ owner' = DropStreams(owner, Top.task)
            /\ reg' = Deregister(reg, Top.task)
            /\ IF decrease_counter_panics(counter)
               THEN /\ mainPc' = "panic"
                    /\ UNCHANGED <<counter, stack>>
               ELSE /\ counter' = IF Top.via = "spawn"
                                  THEN increase_counter(decrease_counter(counter))
                                  ELSE decrease_counter(counter)
                    /\ stack' = Pop
                    /\ UNCHANGED mainPc
    /\ UNCHANGED <<tok, batch, result, muxErr, io, ignored, ls, ad>>

\* InnerWaker::wake, Poll::Pending branch; when the caller is do_spawn,
\* increase_counter follows.  A task returns Pending after an adapter did.
poll_pending ==
    /\ InPoll
    /\ Top.blocked \/ fut[Top.task] # "live"
    /\ counter' = IF Top.via = "spawn" THEN increase_counter(counter) ELSE counter
    /\ stack' = Pop
    /\ UNCHANGED <<fut, owner, reg, tok, batch, mainPc, result, muxErr, io,
                   ignored, ls, ad>>

AtLoop == mainPc = "run" /\ stack = <<>> /\ batch = <<>>

\* Reactor::start_loop: the while condition is false, run returns Ok(()).
start_loop_exit ==
    /\ AtLoop
    /\ ~(counter > 0)
    /\ mainPc' = "ok"
    /\ result' = "Ok"
    /\ UNCHANGED <<counter, fut, owner, reg, tok, stack, batch, muxErr, io,
                   ignored, ls, ad>>

\* iterate with the result of Poll::poll dropped instead of returned by ?.
iterate_err_ignored(e) ==
    /\ AtLoop
    /\ counter > 0
    /\ muxErr' = e
    /\ UNCHANGED <<counter, fut, owner, reg, tok, stack, batch, mainPc, result, io,
                   ignored, ls, ad>>

\* Reactor::iterate: self.poll.poll(..)? fails; start_loop's ? returns it.
iterate_err(e) ==
    /\ AtLoop
    /\ counter > 0
    /\ muxErr' = e
    /\ result' = e
    /\ mainPc' = "err"
    /\ UNCHANGED <<counter, fut, owner, reg, tok, stack, batch, io,
                   ignored, ls, ad>>

\* mio delivers an event for an armed registration whose interest is in the
\* readiness the OS reports.
Fires(rg, rdy) == rg.armed /\ rg.interest \in rdy

Armed == {r \in Res : reg[r].armed}

\* What the OS can report to one Poll::poll: readiness of some streams with an
\* armed registration, each once, in some order.
Changes ==
    {s \in UNION {[1 .. n -> [res : Armed, rdy : Readiness]] : n \in 1 .. Cardinality(Armed)} :
        \A i, j \in DOMAIN s : i # j => s[i].res # s[j].res}

Delivered(evs) == SelectSeq(evs, LAMBDA e : Fires(reg[e.res], e.rdy))

\* Reactor::iterate: self.poll.poll(&mut events, None) blocks until at least
\* one event is delivered; each event carries the token and the interest of
\* its registration (and here the operation that registered it).
iterate_events(evs) ==
    /\ Delivered(evs) # <<>>
    /\ batch' = [i \in DOMAIN Delivered(evs) |->
                    [token |-> reg[Delivered(evs)[i].res].token,
                     kind |-> reg[Delivered(evs)[i].res].interest,
                     op |-> reg[Delivered(evs)[i].res].op]]
    /\ reg' = Oneshot(reg, {Delivered(evs)[i].res : i \in DOMAIN Delivered(evs)})
    /\ ignored' = {evs[i].res : i \in {k \in DOMAIN evs : ~Fires(reg[evs[k].res], evs[k].rdy)}}
    /\ UNCHANGED <<counter, fut, owner, tok, stack, mainPc, result, muxErr,
                   io, ls, ad>>

iterate_poll ==
    /\ AtLoop
    /\ counter > 0
    /\ \E evs \in Changes : iterate_events(evs)

\* A loop that takes the events from the back.
VisitLast(b) == [event |-> b[Len(b)], rest |-> SubSeq(b, 1, Len(b) - 1)]

\* for event in &*events: the events are visited front to back.
Visit(b) == [event |-> Head(b), rest |-> Tail(b)]

\* Reactor::iterate, one turn of the for loop: the token is turned back into
\* the boxed waker and woken, which polls the future the InnerWaker points
\* to.  Polling a future that was dropped is undefined: crash or carry on.
iterate_wake(carryOn) ==
    /\ mainPc = "run"
    /\ stack = <<>>
    /\ batch # <<>>
    /\ batch' = Visit(batch).rest
    /\ tok' = [tok EXCEPT ![Visit(batch).event.token].st = "consumed",
                          ![Visit(batch).event.token].wakes = IF @ < 2 THEN @ + 1 ELSE @]
    /\ IF fut[tok[Visit(batch).event.token].task] # "live" /\ ~carryOn
       THEN /\ mainPc' = "crash"
            /\ UNCHANGED stack
       ELSE /\ stack' = Append(stack, Frame(tok[Visit(batch).event.token].task, "event"))
            /\ UNCHANGED mainPc
    /\ ignored' = {}
    /\ UNCHANGED <<counter, fut, owner, reg, result, muxErr, io, ls, ad>>

Next ==
    \/ spawn
    \/ run
    \/ task_spawn
    \/ task_connect
    \/ \E r \in Res, op \in Ops, ok \in BOOLEAN : task_would_block(r, op, ok)
    \/ task_wake
    \/ \E carryOn \in BOOLEAN : poll_ready(carryOn)
    \/ poll_pending
    \/ start_loop_exit
    \/ \E e \in IoErrors : iterate_err(e)
    \/ iterate_poll
    \/ \E carryOn \in BOOLEAN : iterate_wake(carryOn)

Spec == Init /\ [][Next]_vars

(***************************************************************************)
(* LeakStorage<T>: insert leaks a box and returns its address as the key;  *)
(* remove and get turn the key back into the box, which frees it.  The     *)
(* functions are unsafe and require a valid key, so remove, get and        *)
(* get_ref are applied to keys of leaked boxes only.                       *)
(***************************************************************************)
Keys == 1 .. MaxKeys

LiveKeys == {c.key : c \in ls.cells}

\* An allocator that hands out an address whatever it holds.
AnyKeys == Keys

\* Box::new: an address that holds no leaked box.
FreeKeys == Keys \ LiveKeys

ItemsAt(k) == {c.item : c \in {d \in ls.cells : d.key = k}}

\* LeakStorage::insert
ls_insert(k) ==
    /\ ls.n < MaxItems
    /\ k \in FreeKeys
    /\ ls' = [ls EXCEPT !.cells = @ \cup {[key |-> k, item |-> ls.n + 1]},
                        !.n = @ + 1,
                        !.ret = k]
    /\ UNCHANGED <<reactorVars, ad>>

\* LeakStorage::remove
ls_remove(k) ==
    /\ k \in LiveKeys
    /\ ls' = [ls EXCEPT !.cells = {c \in @ : c.key # k},
                        !.gone = @ \cup {c \in ls.cells : c.key = k},
                        !.ret = 0]
    /\ UNCHANGED <<reactorVars, ad>>

\* LeakStorage::get: the item is moved out and the box freed.
ls_get(k) ==
    /\ k \in LiveKeys
    /\ \E i \in ItemsAt(k) :
          ls' = [ls EXCEPT !.cells = {c \in @ : c.key # k},
                          !.gone = @ \cup {c \in ls.cells : c.key = k},
                          !.ret = i]
    /\ UNCHANGED <<reactorVars, ad>>

\* LeakStorage::get_ref / get_ref_mut
ls_get_ref(k) ==
    /\ k \in LiveKeys
    /\ \E i \in ItemsAt(k) : ls' = [ls EXCEPT !.ret = i]
    /\ UNCHANGED <<reactorVars, ad>>

NextLeak ==
    \/ \E k \in Keys : ls_insert(k)
    \/ \E k \in Keys : ls_remove(k)
    \/ \E k \in Keys : ls_get(k)
    \/ \E k \in Keys : ls_get_ref(k)

SpecLeak == Init /\ [][NextLeak]_vars

\* ---------------------------------------------------------------------------
\* The adapters: AsyncTcpStream (poll_read, poll_write) and
\* AsyncTcpListener's Incoming (poll_next), called by one task from inside its
\* poll, with every outcome the operating system can give.

Listener == 1      \* the resource of the bound listener
Outcomes == {"Ok", "WouldBlock"} \cup IoErrors
Results == {"Ok"} \cup IoErrors

\* The task is in its first poll, spawned by run, and has bound its listener
\* (AsyncTcpListener::bind registers it with the placeholder).
InitAdapters ==
    /\ counter = 0
    /\ fut = [a \in Addr |-> IF a = 1 THEN "live" ELSE "unused"]
    /\ owner = [r \in Res |-> IF r = Listener THEN 1 ELSE NoOwner]
    /\ reg = [r \in Res |-> Placeholder]
    /\ tok = [t \in Tok |-> NoToken]
    /\ stack = <<Frame(1, "spawn")>>
    /\ batch = <<>>
    /\ mainPc = "run"
    /\ result = "none"
    /\ muxErr = "none"
    /\ io = FALSE
    /\ ignored = {}
    /\ ls = [cells |-> {}, gone |-> {}, n |-> 0, ret |-> 0]
    /\ ad = [ret |-> NoCall, yielded |-> <<>>]

\* What an adapter returns after would-block, given the result of reregister:
\* Ok(()) => Poll::Pending, Err(err) => Poll::Ready(Err(err)).
AfterReregister(rr) ==
    IF rr = "Ok" THEN [poll |-> "Pending", val |-> "none"]
                 ELSE [poll |-> "Ready", val |-> rr]

\* AsyncTcpStream::poll_read (op = "read") and poll_write (op = "write"):
\* out is what the non-blocking read or write gave, rr what reregister gave.
poll_io(op, r, out, rr) ==
    /\ out # "WouldBlock" => rr = "Ok"     \* reregister is not called
    /\ InPoll
    /\ r # Listener
    /\ owner[r] = Top.task
    /\ IF out = "WouldBlock"
       THEN /\ reregister(r, Top.task, op, rr = "Ok")
            /\ ad' = [ad EXCEPT !.ret =
                         [op |-> op, res |-> r, out |-> out, rereg |-> rr,
                          poll |-> AfterReregister(rr).poll,
                          val |-> AfterReregister(rr).val]]
       ELSE /\ ad' = [ad EXCEPT !.ret =
                         [op |-> op, res |-> r, out |-> out, rereg |-> "none",
                          poll |-> "Ready", val |-> out]]
            /\ UNCHANGED <<reg, tok>>
    /\ UNCHANGED <<counter, fut, owner, stack, batch, mainPc, result, muxErr,
                   io, ignored, ls>>

poll_read(r, out, rr) == poll_io("read", r, out, rr)

poll_write(r, out, rr) == poll_io("write", r, out, rr)

\* Incoming::poll_next ending the sequence at a failure of accept.
poll_next_item_ending(out, rg) ==
    IF out = "Ok" /\ rg = "Ok" THEN "Stream"
    ELSE IF out = "Ok" THEN rg
    ELSE "None"

\* The item Incoming::poll_next is ready with: the accepted stream once
\* from_tcp_stream has registered it (rg), else the error, always inside Some.
poll_next_item(out, rg) ==
    IF out = "Ok" /\ rg = "Ok" THEN "Stream"
    ELSE IF out = "Ok" THEN rg
    ELSE out

\* Incoming::poll_next: accept on the listener; rg is what register of the
\* accepted stream gave, rr what reregister of the listener gave.
poll_next(out, rg, rr) ==
    /\ out # "WouldBlock" => rr = "Ok"     \* reregister is not called
    /\ out # "Ok" => rg = "Ok"             \* from_tcp_stream is not called
    /\ InPoll
    /\ owner[Listener] = Top.task
    /\ IF out = "WouldBlock"
       THEN /\ reregister(Listener, Top.task, "accept", rr = "Ok")
            /\ rr # "Ok" => Len(ad.yielded) < MaxYield
            /\ ad' = [ret |-> [op |-> "accept", res |-> Listener, out |-> out,
                               rereg |-> rr,
                               poll |-> AfterReregister(rr).poll,
                               val |-> AfterReregister(rr).val],
                      yielded |-> IF rr = "Ok" THEN ad.yielded
                                  ELSE Append(ad.yielded, rr)]
            /\ UNCHANGED owner
       ELSE /\ Len(ad.yielded) < MaxYield
            /\ out = "Ok" => Closed # {}
            /\ ad' = [ret |-> [op |-> "accept", res |-> Listener, out |-> out,
                               rereg |-> "none", poll |-> "Ready",
                               val |-> poll_next_item(out, rg)],
                      yielded |-> Append(ad.yielded, poll_next_item(out, rg))]
            /\ owner' = IF out = "Ok" /\ rg = "Ok"
                        THEN [owner EXCEPT ![NewRes] = Top.task]
                        ELSE owner
            /\ UNCHANGED <<reg, tok>>
    /\ UNCHANGED <<counter, fut, stack, batch, mainPc, result, muxErr,
                   io, ignored, ls>>

\* An accepted AsyncTcpStream is dropped by the task: the socket is closed and
\* its registration goes with it.
drop_stream(r) ==
    /\ InPoll
    /\ r # Listener
    /\ owner[r] = Top.task
    /\ owner' = [owner EXCEPT ![r] = NoOwner]
    /\ reg' = [reg EXCEPT ![r] = Placeholder]
    /\ UNCHANGED <<counter, fut, tok, stack, batch, mainPc, result, muxErr,
                   io, ignored, ls, ad>>

NextAdapters ==
    \/ \E r \in Res, out \in Outcomes, rr \in Results : poll_read(r, out, rr)
    \/ \E r \in Res, out \in Outcomes, rr \in Results : poll_write(r, out, rr)
    \/ \E out \in Outcomes, rg \in Results, rr \in Results :
           poll_next(out, rg, rr)
    \/ \E r \in Res : drop_stream(r)

SpecAdapters == InitAdapters /\ [][NextAdapters]_vars

Live == {a \in Addr : fut[a] = "live"}

Leaked(r) == {t \in Tok : tok[t].st = "leaked" /\ tok[t].res = r /\ tok[t].task = owner[r]}

TokensOf(a) == {t \in Tok : tok[t].st # "unused" /\ tok[t].task = a}

\* C1: when only tasks that return Ready on their first poll and do no I/O
\* were spawned, run ends with Ok and no live task (counter 0).
C1_ReadyTasksRunOk ==
    (~io /\ ~Running) => (mainPc = "ok" /\ result = "Ok" /\ counter = 0 /\ Live = {})

\* C2: decrease_counter never runs while the counter is 0: the panic
\* "Counter of reactor lower than 0" is unreachable.
C2_NoUnderflowPanic == mainPc # "panic"

\* C3: whenever iterate wakes the token of a fired event, the task the token
\* targets is still live.
C3_WokenTaskIsLive ==
    [][(batch # <<>> /\ batch' = Tail(batch)) => fut[tok[Head(batch).token].task] = "live"]_vars

\* C4: run returns Ok only when no spawned task is still pending.
C4_OkMeansNoLiveTask == mainPc = "ok" => Live = {}

\* C5: when Poll::poll fails inside iterate, run returns that same error, no
\* task is resumed in that iteration or afterwards, and the live tasks and the
\* counter are left unchanged.
C5_WaitFailureIsFatal ==
    [][/\ muxErr' # muxErr =>
            /\ mainPc' = "err"
            /\ result' = muxErr'
            /\ UNCHANGED <<counter, fut, stack, batch, tok>>
       /\ mainPc = "err" =>
            UNCHANGED <<counter, fut, stack, batch, tok, mainPc, result>>]_vars

\* Poll::poll failed while tasks were pending and run returned the error.
C5_Witness ==
    /\ mainPc = "err"
    /\ result = muxErr
    /\ result \in IoErrors
    /\ counter > 0
    /\ Live # {}

\* C6: invoking a task's waker never polls the task inside the invocation; a
\* task that invokes its own waker during its poll step is not polled again
\* before that step has returned.
C6_WakeDoesNotPoll ==
    /\ \A i \in DOMAIN stack : stack[i].via # "waker"
    /\ \A i, j \in DOMAIN stack : i # j => stack[i].task # stack[j].task

\* C7: within one iterate call no task is polled until every fired token of
\* the batch has been resolved and removed.
C7_ScanBeforeResume == stack # <<>> => batch = <<>>

\* C8: at most one task's poll step is in progress, also when a task calls
\* spawn from inside its own poll step.
C8_OnePollAtATime == Len(stack) <= 1

\* C9: each resource has at most one token that reregister created and no
\* event has consumed.
C9_OneOutstandingToken == \A r \in Res : Cardinality(Leaked(r)) <= 1

\* C10: a token created by reregister is consumed by exactly one event and
\* resumes its task once: a registration that has fired does not fire again
\* until reregister is called again.
C10_ResumedOncePerRegistration ==
    /\ \A t \in Tok : tok[t].wakes <= 1 /\ (tok[t].st = "consumed" <=> tok[t].wakes = 1)
    /\ \A r \in Res : reg[r].armed => tok[reg[r].token].st = "leaked"
    /\ \A i \in DOMAIN batch : tok[batch[i].token].st = "leaked"
    /\ \A i, j \in DOMAIN batch : i # j => batch[i].token # batch[j].token

\* A task did exactly one would-block read, the event fired and the task is
\* being resumed by it.
C10_Witness ==
    \E t \in Tok :
        /\ tok[t].wakes = 1
        /\ TokensOf(tok[t].task) = {t}
        /\ reg[tok[t].res] =
               [token |-> t, interest |-> "Readable", armed |-> FALSE, op |-> "read"]
        /\ fut[tok[t].task] = "live"
        /\ stack = <<[task |-> tok[t].task, via |-> "event", blocked |-> FALSE]>>

C12_HandleUniqueness ==
    [][/\ \A c, d \in ls'.cells : c.key = d.key => c = d
       /\ \A c \in ls.cells : c \notin ls'.cells =>
              /\ c \in ls'.gone
              /\ ls'.ret \in {0, c.item}
       /\ ls'.n # ls.n =>
              /\ {c.item : c \in {d \in ls'.cells : d.key = ls'.ret}} = {ls'.n}
              /\ ls.cells \subseteq ls'.cells]_vars

\* A key was reclaimed and handed out again: it holds the new item and the
\* old item is gone.
C12_Witness ==
    \E c \in ls.cells, g \in ls.gone :
        /\ c.key = g.key
        /\ c.item # g.item
        /\ ItemsAt(c.key) = {c.item}
        /\ ls.ret = c.key

\* C13: within one iterate call the tasks are resumed in the order in which
\* Poll::poll reported their events: each turn of the loop consumes the token
\* of the first event not yet visited and polls its task.
C13_ResumedInReportedOrder ==
    [][Len(batch') < Len(batch) =>
          /\ batch' = Tail(batch)
          /\ tok' = [tok EXCEPT ![Head(batch).token].st = "consumed",
                                ![Head(batch).token].wakes = @ + 1]
          /\ mainPc' # "crash" =>
                 stack' = <<Frame(tok[Head(batch).token].task, "event")>>]_vars

\* Of a batch of two events for two tasks the first has been resumed and has
\* returned; the second is still to be visited.
C13_Witness ==
    /\ Len(batch) = 1
    /\ stack = <<>>
    /\ tok[batch[1].token].st = "leaked"
    /\ \E t \in Tok :
          /\ tok[t].wakes = 1
          /\ tok[t].task # tok[batch[1].token].task

\* C14: spawn stores the task and polls it once before it returns; while that
\* first poll runs the task is stored and already counted as live.
C14_CountedAtFirstPoll ==
    \A i \in DOMAIN stack :
        (stack[i].via = "spawn" /\ i = Len(stack) /\ Running) =>
            /\ fut[stack[i].task] = "live"
            /\ counter >= 1

\* C15: an adapter operation that returns Pending has left a one-shot
\* registration of its resource, armed with the interest of the operation and
\* a waker token of the calling task; when reregister fails the operation is
\* Ready with that error and never Pending.
C15_PendingMeansRegistered ==
    [][/\ ad'.ret.poll = "Pending" =>
              \/ UNCHANGED <<ad, tok>>
              \/ /\ tok' # tok
                 /\ ad'.ret.out = "WouldBlock"
                 /\ reg'[ad'.ret.res].armed
                 /\ reg'[ad'.ret.res].interest =
                        (IF ad'.ret.op = "write" THEN "Writable" ELSE "Readable")
                 /\ reg'[ad'.ret.res].token \in Tok
                 /\ tok[reg'[ad'.ret.res].token] = NoToken
                 /\ tok'[reg'[ad'.ret.res].token] =
                        [task |-> Top.task, res |-> ad'.ret.res,
                         st |-> "leaked", wakes |-> 0]
       /\ (tok' # tok /\ reg' = reg) =>
              /\ ad'.ret.rereg \in IoErrors
              /\ ad'.ret.poll = "Ready"
              /\ ad'.ret.val = ad'.ret.rereg]_vars

C15_Witness ==
    /\ ad.ret.poll = "Pending"
    /\ ad.ret.op = "write"
    /\ reg[ad.ret.res].interest = "Writable"
    /\ reg[Listener].armed

C15_WitnessFailed ==
    /\ ad.ret.op = "accept"
    /\ ad.ret.rereg \in IoErrors
    /\ ad.ret.poll = "Ready"

\* C16 as stated: once accept has failed with an error other than would-block,
\* no later poll of the sequence produces an accepted stream.
C16_EndsAtError ==
    \A i, j \in DOMAIN ad.yielded :
        (i < j /\ ad.yielded[i] \in IoErrors) => ad.yielded[j] # "Stream"

\* C16 amended: a failure of accept is yielded as an item holding that error,
\* the sequence never ends (no item is None), and a poll that is Ready has
\* appended the item it returned.
C16_ErrorIsAnItem ==
    /\ \A i \in DOMAIN ad.yielded : ad.yielded[i] \in {"Stream"} \cup IoErrors
    /\ (ad.ret.op = "accept" /\ ad.ret.poll = "Ready") =>
           /\ ad.yielded # <<>>
           /\ ad.yielded[Len(ad.yielded)] = ad.ret.val
    /\ (ad.ret.op = "accept" /\ ad.ret.out \in IoErrors) =>
           /\ ad.ret.poll = "Ready"
           /\ ad.ret.val = ad.ret.out

C16_Witness ==
    /\ Len(ad.yielded) >= 2
    /\ ad.yielded[1] \in IoErrors
    /\ ad.yielded[2] = "Stream"
    /\ ad.ret.op = "accept"
    /\ ad.ret.out = "Ok"

\* C17: decrease_counter called with the counter at 0 panics and leaves the
\* counter at 0: the poll that was Ready does not return (its frame stays),
\* and after the panic nothing runs any more.
C17_UnderflowPanics ==
    [][/\ mainPc # "panic"
       /\ (counter = 0 /\ \E a \in Addr : fut[a] = "live" /\ fut'[a] = "freed")
              => /\ mainPc' = "panic"
                 /\ counter' = 0
                 /\ stack' = stack
                 /\ batch' = batch
       /\ mainPc' = "panic" => (counter = 0 /\ counter' = 0)]_vars

C17_Witness ==
    /\ mainPc = "panic"
    /\ counter = 0
    /\ \E a \in Addr : fut[a] = "freed"

\* C18: whenever run's loop tests the counter, with no poll in progress, the
\* counter is the number of tasks spawned that have not yet returned Ready.
C18_CounterIsLiveCount == AtLoop => counter = Cardinality(Live)

\* C19: run eventually returns; so the program never comes to rest in a state
\* where run has not returned.
C19_RunReturns == ~Running => mainPc \in {"ok", "err"}

\* C20: when run returns success, every token reregister created has been
\* turned back into a waker by the event loop, exactly once.
C20_NoTokenLeftBehind ==
    mainPc = "ok" =>
        \A t \in Tok : tok[t].st # "unused" =>
            (tok[t].st = "consumed" /\ tok[t].wakes = 1)

====
